---- MODULE Spec2Model ----
(***************************************************************************)
(* Model of the VC0706 serial camera driver (adafruit_vc0706.py).          *)
(*                                                                         *)
(* The driver talks to the camera through a UART object (write, readinto,  *)
(* baudrate).  The model keeps the driver's fields (_buffer, _frame_ptr),   *)
(* the UART's baud rate, the position of the running method (pc), and a     *)
(* camera on the other end of the line.  What a readinto call delivers is   *)
(* chosen by the environment: the camera's true answer, a shortened one,    *)
(* or one with a damaged prefix byte.                                       *)
(*                                                                         *)
(* Bytes are integers 0..255; Python index i of a bytes object is index    *)
(* i+1 of the sequence that models it.  The scratch buffer is kept as its   *)
(* size and its contents up to the last non-zero byte: the rest is still    *)
(* the zeros bytearray(buffer_size) put there.                              *)
(***************************************************************************)
EXTENDS Integers, Sequences, FiniteSets, TLC

VARIABLES
    variant,     \* which class the session is: "VC0706" or "VC0706Camera"
    pc,          \* position of the running method
    pass,        \* constructor: outer loop variable `_` (0 or 1)
    idx,         \* constructor: position in the baud ladder (1..5)
    baud,        \* self._uart.baudrate
    _buffer,     \* self._buffer
    _frame_ptr,  \* self._frame_ptr
    remaining,   \* local frame_length of save_image / VC0706Camera.take_picture
    sink,        \* bytes held by the caller's sink (outfile / buffer)
    sinkType,    \* type of the caller's sink
    ret,         \* outcome of the last finished method
    wire,        \* the UART calls made by the last step, in order
    xchg,        \* the _run_command exchange of the last step, if it made one
    rpi,         \* the read_picture_into call of the last step, if it made one
    devBaud,     \* camera: the baud rate it listens and answers at
    devFlen,     \* camera: length of the frame it holds
    devSize,     \* camera: the image size code its size register holds
    nreset,      \* history: RESET exchanges made by the constructor
    resetOks,    \* history: RESET exchanges the constructor took as valid
    streak,      \* history: failed RESET exchanges since the last valid one
    allShort,    \* history: every RESET exchange so far returned < 5 bytes
    faithful,    \* history: every read so far delivered the camera's answer
    faults,      \* history: reads of the constructed session that did not deliver
                 \*          the camera's answer
    delivered,   \* history: frame bytes delivered to the host since capture
    acked,       \* history: sum of the non-zero results of read_picture_into
                 \*          since capture
    calls        \* history: methods the caller has called on the session

vars == <<variant, pc, pass, idx, baud, _buffer, _frame_ptr, remaining, sink,
          sinkType, ret, wire, xchg, rpi, devBaud, devFlen, devSize, nreset,
          resetOks, streak, allShort, faithful, faults, delivered, acked, calls>>

----------------------------------------------------------------------------
(* Program constants *)

_SERIAL == 0
_RESET == 38
_GEN_VERSION == 17
_SET_PORT == 36
_READ_FBUF == 50
_GET_FBUF_LEN == 52
_FBUF_CTRL == 54
_READ_DATA == 48
_WRITE_DATA == 49
_STOPCURRENTFRAME == 0
_RESUMEFRAME == 3
IMAGE_SIZE_640x480 == 0
IMAGE_SIZE_320x240 == 17
IMAGE_SIZE_160x120 == 34
_CAMERA_DELAY == 10
_BAUDRATE_9600 == 44744
_BAUDRATE_19200 == 22244
_BAUDRATE_38400 == 10994
_BAUDRATE_57600 == 7196
_BAUDRATE_115200 == 3494

\* for _ in range(2)
Passes == 2
\* for baud in (9600, 19200, 38400, 57600, 115200)
Ladder == <<9600, 19200, 38400, 57600, 115200>>
\* the copy buffer size of the drain loops: min(frame_length, 32)
CopySize == 32
\* response lengths the driver asks for
ResetRespLen == 5
CtrlRespLen == 5
FbufLenRespLen == 9
ReadFbufRespLen == 5
\* bufflen + 5: the data read of read_picture_into
DataOverhead == 5
\* bufflen > 256
HardMaxBuf == 256
\* response length the baudrate setter passes to _run_command
SetPortRespLen == 7
\* response length the image_size getter passes to _run_command
ReadDataRespLen == 6

----------------------------------------------------------------------------
(* Bounds of the model *)

\* the longest frame the camera holds
MaxFrameLen == 130
\* the caller asks read_picture_into for frame data up to this offset only
MaxCursor == 104
\* reads of a constructed session that may fail to deliver the camera's answer
MaxFaults == 1
\* methods the caller calls on a constructed session
MaxCalls == 2
\* bytes a drain read finds in the line when the line is not clean
JunkLen == 3
\* bytes delivered by a read that stops early
ShortLen == 3

\* the cursor up to which the long drain is followed
MaxLongCursor == 66000

BufferSizes == {100, 112}
FrameLens == {36, MaxFrameLen}
BufLens == {2, 32, 100, 104}
Variants == {"VC0706", "VC0706Camera"}

----------------------------------------------------------------------------
(* Byte sequences *)

Take(s, k) == SubSeq(s, 1, IF k < Len(s) THEN k ELSE Len(s))

Min(a, b) == IF a < b THEN a ELSE b

RECURSIVE Trim(_)
\* s without its trailing zeros
Trim(s) == IF s # <<>> /\ s[Len(s)] = 0 THEN Trim(SubSeq(s, 1, Len(s) - 1)) ELSE s

\* bytearray(n)
NewBuffer(n) == [size |-> n, used |-> <<>>]

\* buf[i], i the Python index
At(buf, i) == IF i < Len(buf.used) THEN buf.used[i + 1] ELSE 0

\* s with the byte at position i (1-based) replaced by another value
Damage(s, i) == [s EXCEPT ![i] = (s[i] + 1) % 256]

----------------------------------------------------------------------------
(* The UART calls a step makes, as records *)

BaudEv(b) == [op |-> "baudrate", n |-> b, got |-> 0, bytes |-> <<>>]

WriteEv(bs) == [op |-> "write", n |-> Len(bs), got |-> 0, bytes |-> bs]

ReadEv(n, got) == [op |-> "read", n |-> n, got |-> got, bytes |-> <<>>]

RECURSIVE Written(_)
\* all bytes written by the calls of w, in order
Written(w) ==
    IF w = <<>> THEN <<>>
    ELSE (IF Head(w).op = "write" THEN Head(w).bytes ELSE <<>>) \o Written(Tail(w))

----------------------------------------------------------------------------
(* The camera on the other end of the line *)

\* byte k (0-based) of the camera's frame buffer; the frame is its first
\* devFlen bytes
FrameByte(k) == (k % 255) + 1

Frame == [i \in 1..devFlen |-> FrameByte(i - 1)]

\* big-endian value of a byte sequence
RECURSIVE BE(_)
BE(bs) == IF bs = <<>> THEN 0 ELSE BE(SubSeq(bs, 1, Len(bs) - 1)) * 256 + bs[Len(bs)]

BE32(v) == <<(v \div 16777216) % 256, (v \div 65536) % 256, (v \div 256) % 256, v % 256>>

CamAck(cmd) == <<118, 0, cmd, 0>>

\* what the camera sends back for a command frame: as many bytes as the
\* driver asks _run_command to expect for the command
CamAnswer(frame) ==
    LET cmd == frame[3] IN
    IF cmd = _GET_FBUF_LEN THEN CamAck(cmd) \o <<4>> \o BE32(devFlen)
    ELSE IF cmd = _SET_PORT THEN CamAck(cmd) \o <<2, 0, 0>>
    ELSE CamAck(cmd) \o <<0>>

\* what the camera sends after the header of a read-frame-buffer command:
\* the requested bytes of the frame, then the closing 5 bytes
CamData(frame) ==
    LET start == BE(SubSeq(frame, 7, 10))
        len == BE(SubSeq(frame, 11, 14))
    IN [i \in 1..len |-> FrameByte(start + i - 1)] \o CamAck(_READ_FBUF) \o <<0>>

\* what a clean line delivers to a read of n bytes with the transport at
\* baud rate b: the camera's bytes when both ends run at the same rate,
\* nothing otherwise
TrueDelivery(b, answer, n) ==
    IF b = devBaud THEN Take(answer, Min(n, _buffer.size)) ELSE <<>>

\* what a read of n bytes may deliver when the camera sent `answer`:
\* all of it, the start of it, nothing, or all of it with one prefix byte damaged
LineDeliveries(answer, n) ==
    LET good == Take(answer, Min(n, _buffer.size)) IN
    {good, Take(good, ShortLen), <<>>}
      \cup {Damage(good, i) : i \in 1..Min(4, Len(good))}

\* the same for the data read of read_picture_into
LineData(answer, n) ==
    LET good == Take(answer, Min(n, _buffer.size)) IN
    {good, Take(good, ShortLen), <<>>}

\* what a drain read may find in the line
LineJunks == {<<>>, [i \in 1..JunkLen |-> 165]}

\* in a constructed session at most MaxFaults reads fail; `used` counts the
\* reads of the running step that failed already
MayFail(used) == faults + used < MaxFaults

Fault(clean) == IF clean THEN 0 ELSE 1

Junks == IF MayFail(0) THEN LineJunks ELSE {<<>>}

\* what the response read of a step delivers, after a drain read found junk
Deliveries(answer, n, junk) ==
    IF MayFail(Fault(junk = <<>>))
    THEN LineDeliveries(answer, n) \cup {TrueDelivery(baud, answer, n)}
    ELSE {TrueDelivery(baud, answer, n)}

\* what the data read of read_picture_into delivers, after hdr was delivered
\* as the answer hdrAnswer
DataDeliveries(answer, n, hdr, hdrAnswer) ==
    IF MayFail(Fault(hdr = TrueDelivery(baud, hdrAnswer, ReadFbufRespLen)))
    THEN LineData(answer, n) \cup {TrueDelivery(baud, answer, n)}
    ELSE {TrueDelivery(baud, answer, n)}

----------------------------------------------------------------------------
(* The driver's private helpers *)

\* _send_command: the header, then the args when there are any
_send_command(cmd, args) ==
    <<WriteEv(<<86, _SERIAL, cmd % 256>>)>>
      \o (IF args # <<>> THEN <<WriteEv(args)>> ELSE <<>>)

\* _read_response: uart.readinto(memoryview(result)[0:numbytes]), where the
\* line delivers `data`; the bytes land at the start of result
_read_response(result, numbytes, data) ==
    [buf |-> [result EXCEPT
                !.used = Trim(data \o SubSeq(result.used, Len(data) + 1, Len(result.used)))],
     n |-> Len(data)]

\* faulty variant of _verify_response: the status byte is not looked at
_verify_response_no_status(buf, cmd) ==
    /\ At(buf, 0) = 118
    /\ At(buf, 1) = _SERIAL
    /\ At(buf, 2) = cmd % 256

_verify_response(buf, cmd) ==
    /\ At(buf, 0) = 118
    /\ At(buf, 1) = _SERIAL
    /\ At(buf, 2) = cmd % 256
    /\ At(buf, 3) = 0

\* faulty variant of _run_command: only an empty read counts as a failed read
_run_command_zero_only(buf, cmd, args, resplen, flush, junk, data) ==
    LET drained == IF flush THEN _read_response(buf, buf.size, junk).buf ELSE buf
        r == _read_response(drained, resplen, data)
        ok == IF r.n = 0 THEN FALSE
              ELSE IF ~_verify_response(r.buf, cmd) THEN FALSE
              ELSE TRUE
    IN [ok |-> ok,
        buf |-> r.buf,
        wire |-> (IF flush THEN <<ReadEv(buf.size, Len(junk))>> ELSE <<>>)
                   \o _send_command(cmd, args)
                   \o <<ReadEv(resplen, r.n)>>]

\* faulty variant of _run_command: a failed exchange is tried once more
_run_command_resend(buf, cmd, args, resplen, flush, junk, data) ==
    LET drained == IF flush THEN _read_response(buf, buf.size, junk).buf ELSE buf
        r == _read_response(drained, resplen, data)
        ok == IF r.n # resplen THEN FALSE
              ELSE IF ~_verify_response(r.buf, cmd) THEN FALSE
              ELSE TRUE
        once == (IF flush THEN <<ReadEv(buf.size, Len(junk))>> ELSE <<>>)
                  \o _send_command(cmd, args)
                  \o <<ReadEv(resplen, r.n)>>
    IN [ok |-> ok,
        buf |-> r.buf,
        wire |-> IF ok THEN once
                 ELSE once \o _send_command(cmd, args) \o <<ReadEv(resplen, r.n)>>]

\* _run_command, with what the line delivers to its drain read (junk) and to
\* its response read (data)
_run_command(buf, cmd, args, resplen, flush, junk, data) ==
    LET drained == IF flush THEN _read_response(buf, buf.size, junk).buf ELSE buf
        r == _read_response(drained, resplen, data)
        ok == IF r.n # resplen THEN FALSE
              ELSE IF ~_verify_response(r.buf, cmd) THEN FALSE
              ELSE TRUE
    IN [ok |-> ok,
        buf |-> r.buf,
        wire |-> (IF flush THEN <<ReadEv(buf.size, Len(junk))>> ELSE <<>>)
                   \o _send_command(cmd, args)
                   \o <<ReadEv(resplen, r.n)>>]

Exchange(cmd, resplen, data, ok) ==
    [cmd |-> cmd, resplen |-> resplen, data |-> data, ok |-> ok]

NoExchange == Exchange(0, 0, <<>>, FALSE)

Outcome(op, exc, val) == [op |-> op, exc |-> exc, val |-> val]

\* a read_picture_into call: the length of its buffer, the cursor before and
\* after, what it raised or returned, whether its header exchange was taken
\* as valid, the bytes its data read delivered (no data read: none), and the
\* caller's buffer afterwards
ReadCall(bufflen, before, after, exc, val, hdrOk, dataRead, data, buf) ==
    [bufflen |-> bufflen, before |-> before, after |-> after, exc |-> exc,
     val |-> val, hdrOk |-> hdrOk, dataRead |-> dataRead, data |-> data, buf |-> buf]

NoRead == ReadCall(0, 0, 0, "none", 0, FALSE, FALSE, <<>>, <<>>)

----------------------------------------------------------------------------
(* Construction: VC0706.__init__ / VC0706Camera.__init__ *)

\* faulty variant of CtorStep: a failed candidate skips the next one
CtorStep_skip(p, i, ok) ==
    IF ok
    THEN IF p + 1 < Passes
         THEN [pc |-> "init", pass |-> p + 1, idx |-> 1]
         ELSE [pc |-> "ready", pass |-> p, idx |-> i]
    ELSE IF i + 1 < Len(Ladder)
         THEN [pc |-> "init", pass |-> p, idx |-> i + 2]
         ELSE [pc |-> "failed", pass |-> p, idx |-> i]

\* faulty variant of CtorStep: break leaves both loops
CtorStep_break_all(p, i, ok) ==
    IF ok
    THEN [pc |-> "ready", pass |-> p, idx |-> i]
    ELSE IF i < Len(Ladder)
         THEN [pc |-> "init", pass |-> p, idx |-> i + 1]
         ELSE [pc |-> "failed", pass |-> p, idx |-> i]

\* faulty variant of CtorStep: the else branch belongs to the outer loop, so a
\* pass without an answer is followed by the next pass
CtorStep_retry(p, i, ok) ==
    IF ok
    THEN IF p + 1 < Passes
         THEN [pc |-> "init", pass |-> p + 1, idx |-> 1]
         ELSE [pc |-> "ready", pass |-> p, idx |-> i]
    ELSE IF i < Len(Ladder)
         THEN [pc |-> "init", pass |-> p, idx |-> i + 1]
         ELSE IF p + 1 < Passes
              THEN [pc |-> "init", pass |-> p + 1, idx |-> 1]
              ELSE [pc |-> "failed", pass |-> p, idx |-> i]

\* where the two loops go after one RESET exchange: break leaves the inner
\* loop only, the else branch of the inner loop raises
CtorStep(p, i, ok) ==
    IF ok
    THEN IF p + 1 < Passes
         THEN [pc |-> "init", pass |-> p + 1, idx |-> 1]
         ELSE [pc |-> "ready", pass |-> p, idx |-> i]
    ELSE IF i < Len(Ladder)
         THEN [pc |-> "init", pass |-> p, idx |-> i + 1]
         ELSE [pc |-> "failed", pass |-> p, idx |-> i]

InitialBauds == {9600, 115200}

\* what the camera's size register holds before the driver sets a size
InitialSizes == {IMAGE_SIZE_640x480}

InitCtor ==
    /\ variant \in Variants
    /\ pc = "init"
    /\ pass = 0
    /\ idx = 1
    /\ baud \in InitialBauds
    /\ _buffer \in {NewBuffer(c) : c \in BufferSizes}
    /\ _frame_ptr = 0
    /\ remaining = 0
    /\ sink = <<>>
    /\ sinkType = "none"
    /\ ret = Outcome("none", "none", 0)
    /\ wire = <<>>
    /\ xchg = NoExchange
    /\ rpi = NoRead
    /\ devBaud \in {Ladder[i] : i \in 1..Len(Ladder)}
    /\ devFlen = 0
    /\ devSize \in InitialSizes
    /\ nreset = 0
    /\ resetOks = 0
    /\ streak = 0
    /\ allShort = TRUE
    /\ faithful = TRUE
    /\ faults = 0
    /\ delivered = 0
    /\ acked = 0
    /\ calls = 0

\* one turn of the inner loop: set the baud rate, run RESET
Probe ==
    /\ pc = "init"
    /\ baud' = Ladder[idx]
    /\ LET args == <<0>>
           answer == CamAnswer(Written(_send_command(_RESET, args)))
       IN \E junk \in LineJunks, data \in LineDeliveries(answer, ResetRespLen) :
            LET r == _run_command(_buffer, _RESET, args, ResetRespLen, TRUE, junk, data)
                to == CtorStep(pass, idx, r.ok)
            IN /\ _buffer' = r.buf
               /\ wire' = <<BaudEv(Ladder[idx])>> \o r.wire
               /\ xchg' = Exchange(_RESET, ResetRespLen, data, r.ok)
               /\ pc' = to.pc
               /\ pass' = to.pass
               /\ idx' = to.idx
               /\ ret' = IF to.pc = "failed"
                         THEN Outcome("__init__", "RuntimeError", 0)
                         ELSE IF to.pc = "ready"
                         THEN Outcome("__init__", "none", 0)
                         ELSE ret
               /\ nreset' = nreset + 1
               /\ resetOks' = resetOks + (IF r.ok THEN 1 ELSE 0)
               /\ streak' = IF r.ok THEN 0 ELSE streak + 1
               /\ allShort' = (allShort /\ Len(data) < ResetRespLen)
               /\ faithful' = (faithful /\ junk = <<>>
                                 /\ data = TrueDelivery(Ladder[idx], answer, ResetRespLen))
    /\ UNCHANGED <<variant, _frame_ptr, remaining, sink, sinkType, rpi, devBaud,
                   devFlen, devSize, faults, delivered, acked, calls>>

NextCtor == Probe

SpecCtor == InitCtor /\ [][NextCtor]_vars

----------------------------------------------------------------------------
(* The methods of a constructed session *)

CtorVars == <<pass, idx, nreset, resetOks, streak, allShort>>

\* faulty variant of frame_length: the length is taken as a 16-bit value
frame_length_16(buf, junk, data) ==
    LET r == _run_command(buf, _GET_FBUF_LEN, <<1, 0>>, FbufLenRespLen, TRUE, junk, data)
    IN [val |-> IF ~r.ok THEN 0 ELSE At(r.buf, 7) * 256 + At(r.buf, 8),
        ok |-> r.ok, buf |-> r.buf, wire |-> r.wire]

\* frame_length (property)
frame_length(buf, junk, data) ==
    LET r == _run_command(buf, _GET_FBUF_LEN, <<1, 0>>, FbufLenRespLen, TRUE, junk, data)
    IN [val |-> IF ~r.ok THEN 0
                ELSE ((At(r.buf, 5) * 256 + At(r.buf, 6)) * 256 + At(r.buf, 7)) * 256
                       + At(r.buf, 8),
        ok |-> r.ok, buf |-> r.buf, wire |-> r.wire]

\* faulty variant of take_picture: the cursor is reset only when the camera
\* acknowledges
take_picture_reset_on_ack(buf, junk, data) ==
    LET r == _run_command(buf, _FBUF_CTRL, <<1, _STOPCURRENTFRAME>>, CtrlRespLen,
                          TRUE, junk, data)
    IN [ptr |-> IF r.ok THEN 0 ELSE _frame_ptr, ok |-> r.ok, buf |-> r.buf,
        wire |-> r.wire]

\* VC0706.take_picture / VC0706Camera.stop_video
take_picture(buf, junk, data) ==
    LET r == _run_command(buf, _FBUF_CTRL, <<1, _STOPCURRENTFRAME>>, CtrlRespLen,
                          TRUE, junk, data)
    IN [ptr |-> 0, ok |-> r.ok, buf |-> r.buf, wire |-> r.wire]

\* resume_video
resume_video(buf, junk, data) ==
    LET r == _run_command(buf, _FBUF_CTRL, <<1, _RESUMEFRAME>>, CtrlRespLen,
                          TRUE, junk, data)
    IN [ok |-> r.ok, buf |-> r.buf, wire |-> r.wire]

\* set_img_size, for one of the three sizes
set_img_size(buf, size, junk, data) ==
    LET r == _run_command(buf, _WRITE_DATA, <<5, 4, 1, 0, 25, size % 256>>, 5,
                          TRUE, junk, data)
    IN [ok |-> r.ok, buf |-> r.buf, wire |-> r.wire]

\* the size code the camera's register holds after the camera heard a command
\* frame: the last byte of a WRITE_DATA to the register set_img_size writes
CamSize(frame) ==
    IF Len(frame) = 9 /\ SubSeq(frame, 3, 8) = <<_WRITE_DATA, 5, 4, 1, 0, 25>>
    THEN frame[9]
    ELSE devSize

\* the args of the read-frame-buffer command
ReadFbufArgs(ptr, bufflen) ==
    <<12, 0, 10, 0, 0, (ptr \div 256) % 256, ptr % 256, 0, 0, 0, bufflen % 256,
      (_CAMERA_DELAY \div 256) % 256, _CAMERA_DELAY % 256>>

\* the bytes a caller's fresh buffer holds: bytearray(n)
Blank(n) == [i \in 1..n |-> 0]

\* read_picture_into(buf) with len(buf) = bufflen and the cursor at ptr;
\* hdr is what the line delivers to the response read of the command, data
\* what it delivers to the read that follows
read_picture_into(buf, ptr, bufflen, hdr, data) ==
    IF bufflen > HardMaxBuf \/ bufflen > buf.size - DataOverhead
    THEN [exc |-> "ValueError", val |-> 0, buf |-> buf, ptr |-> ptr,
          out |-> Blank(bufflen), wire |-> <<>>, hdrOk |-> FALSE, dataRead |-> FALSE]
    ELSE IF bufflen % 4 # 0
    THEN [exc |-> "ValueError", val |-> 0, buf |-> buf, ptr |-> ptr,
          out |-> Blank(bufflen), wire |-> <<>>, hdrOk |-> FALSE, dataRead |-> FALSE]
    ELSE
      LET r == _run_command(buf, _READ_FBUF, ReadFbufArgs(ptr, bufflen),
                            ReadFbufRespLen, FALSE, <<>>, hdr)
          d == _read_response(r.buf, bufflen + DataOverhead, data)
      IN IF ~r.ok
         THEN [exc |-> "none", val |-> 0, buf |-> r.buf, ptr |-> ptr,
               out |-> Blank(bufflen), wire |-> r.wire,
               hdrOk |-> FALSE, dataRead |-> FALSE]
         ELSE IF d.n = 0
         THEN [exc |-> "none", val |-> 0, buf |-> d.buf, ptr |-> ptr,
               out |-> Blank(bufflen),
               wire |-> r.wire \o <<ReadEv(bufflen + DataOverhead, d.n)>>,
               hdrOk |-> TRUE, dataRead |-> TRUE]
         ELSE [exc |-> "none", val |-> bufflen, buf |-> d.buf, ptr |-> ptr + bufflen,
               out |-> [i \in 1..bufflen |-> At(d.buf, i - 1)],
               wire |-> r.wire \o <<ReadEv(bufflen + DataOverhead, d.n)>>,
               hdrOk |-> TRUE, dataRead |-> TRUE]

\* the camera's answers to a read-frame-buffer command sent with these args
HdrAnswer(ptr, bufflen) ==
    CamAnswer(Written(_send_command(_READ_FBUF, ReadFbufArgs(ptr, bufflen))))

DataAnswer(ptr, bufflen) ==
    CamData(Written(_send_command(_READ_FBUF, ReadFbufArgs(ptr, bufflen))))

\* the history of the line after a step in which its first read was clean
\* or not, and its second
LineHistory(clean1, clean2) ==
    /\ faults' = faults + Fault(clean1) + Fault(clean2)
    /\ faithful' = (faithful /\ clean1 /\ clean2)

\* what one read_picture_into call leaves behind; taken by the public call
\* and by each turn of the drain loops
ReadEffects(bufflen, hdr, data, c) ==
    /\ _buffer' = c.buf
    /\ _frame_ptr' = c.ptr
    /\ wire' = c.wire
    /\ xchg' = IF c.wire = <<>> THEN NoExchange
               ELSE Exchange(_READ_FBUF, ReadFbufRespLen, hdr, c.hdrOk)
    /\ rpi' = ReadCall(bufflen, _frame_ptr, c.ptr, c.exc, c.val, c.hdrOk, c.dataRead,
                       IF c.dataRead THEN data ELSE <<>>, c.out)
    /\ acked' = acked + c.val
    /\ delivered' = delivered + (IF c.dataRead THEN Min(Len(data), bufflen) ELSE 0)
    /\ LineHistory(c.wire # <<>> =>
                     hdr = TrueDelivery(baud, HdrAnswer(_frame_ptr, bufflen),
                                        ReadFbufRespLen),
                   c.dataRead =>
                     data = TrueDelivery(baud, DataAnswer(_frame_ptr, bufflen),
                                         bufflen + DataOverhead))

\* what the line delivers to the two reads of one read_picture_into call:
\* nothing is read when the buffer is rejected, and the data read is made
\* only after a header taken as valid
HdrChoices(bufflen) ==
    IF read_picture_into(_buffer, _frame_ptr, bufflen, <<>>, <<>>).wire = <<>>
    THEN {<<>>}
    ELSE Deliveries(HdrAnswer(_frame_ptr, bufflen), ReadFbufRespLen, <<>>)

DataChoices(bufflen, hdr) ==
    IF read_picture_into(_buffer, _frame_ptr, bufflen, hdr, <<>>).dataRead
    THEN DataDeliveries(DataAnswer(_frame_ptr, bufflen), bufflen + DataOverhead,
                        hdr, HdrAnswer(_frame_ptr, bufflen))
    ELSE {<<>>}

SessionBauds == {38400}

PositionOf(b) == CHOOSE i \in 1..Len(Ladder) : Ladder[i] = b

\* a session as construction leaves it over a clean line
Init ==
    /\ variant \in Variants
    /\ pc = "ready"
    /\ pass = Passes - 1
    /\ baud \in SessionBauds
    /\ idx = PositionOf(baud)
    /\ devBaud = baud
    /\ \E c \in BufferSizes :
         /\ _buffer = [size |-> c, used |-> Trim(CamAnswer(<<86, _SERIAL, _RESET, 0>>))]
         /\ wire = <<BaudEv(baud), ReadEv(c, 0)>> \o _send_command(_RESET, <<0>>)
                     \o <<ReadEv(ResetRespLen, ResetRespLen)>>
    /\ _frame_ptr = 0
    /\ remaining = 0
    /\ sink = <<>>
    /\ sinkType = "none"
    /\ ret = Outcome("__init__", "none", 0)
    /\ xchg = Exchange(_RESET, ResetRespLen, CamAnswer(<<86, _SERIAL, _RESET, 0>>), TRUE)
    /\ rpi = NoRead
    /\ devFlen = 0
    /\ devSize \in InitialSizes
    /\ nreset = Passes * idx
    /\ resetOks = Passes
    /\ streak = 0
    /\ allShort = FALSE
    /\ faithful = TRUE
    /\ faults = 0
    /\ delivered = 0
    /\ acked = 0
    /\ calls = 0

\* the caller calls a method of the idle session
Call ==
    /\ pc = "ready"
    /\ calls < MaxCalls
    /\ calls' = calls + 1

\* VC0706.take_picture() / VC0706Camera.stop_video(): begin a capture.  A
\* camera that hears the command freezes a frame of some length.
BeginCapture ==
    /\ Call
    /\ LET answer == CamAnswer(Written(_send_command(_FBUF_CTRL, <<1, _STOPCURRENTFRAME>>)))
       IN \E junk \in Junks : \E data \in Deliveries(answer, CtrlRespLen, junk), n \in FrameLens :
            LET r == take_picture(_buffer, junk, data)
            IN /\ _frame_ptr' = r.ptr
               /\ _buffer' = r.buf
               /\ wire' = r.wire
               /\ xchg' = Exchange(_FBUF_CTRL, CtrlRespLen, data, r.ok)
               /\ ret' = Outcome(IF variant = "VC0706" THEN "take_picture" ELSE "stop_video",
                                 "none", IF r.ok THEN 1 ELSE 0)
               /\ devFlen' = IF baud = devBaud THEN n ELSE devFlen
               /\ LineHistory(junk = <<>>, data = TrueDelivery(baud, answer, CtrlRespLen))
    /\ delivered' = 0
    /\ acked' = 0
    /\ rpi' = NoRead
    /\ UNCHANGED <<variant, pc, baud, remaining, sink, sinkType, devBaud>>
    /\ UNCHANGED devSize
    /\ UNCHANGED CtorVars

\* resume_video()
ResumeVideo ==
    /\ Call
    /\ LET answer == CamAnswer(Written(_send_command(_FBUF_CTRL, <<1, _RESUMEFRAME>>)))
       IN \E junk \in Junks : \E data \in Deliveries(answer, CtrlRespLen, junk) :
            LET r == resume_video(_buffer, junk, data)
            IN /\ _buffer' = r.buf
               /\ wire' = r.wire
               /\ xchg' = Exchange(_FBUF_CTRL, CtrlRespLen, data, r.ok)
               /\ ret' = Outcome("resume_video", "none", IF r.ok THEN 1 ELSE 0)
               /\ LineHistory(junk = <<>>, data = TrueDelivery(baud, answer, CtrlRespLen))
    /\ rpi' = NoRead
    /\ UNCHANGED <<variant, pc, baud, _frame_ptr, remaining, sink, sinkType,
                   devBaud, devFlen, delivered, acked>>
    /\ UNCHANGED devSize
    /\ UNCHANGED CtorVars

\* frame_length, read by the caller
FrameLength ==
    /\ Call
    /\ LET answer == CamAnswer(Written(_send_command(_GET_FBUF_LEN, <<1, 0>>)))
       IN \E junk \in Junks : \E data \in Deliveries(answer, FbufLenRespLen, junk) :
            LET r == frame_length(_buffer, junk, data)
            IN /\ _buffer' = r.buf
               /\ wire' = r.wire
               /\ xchg' = Exchange(_GET_FBUF_LEN, FbufLenRespLen, data, r.ok)
               /\ ret' = Outcome("frame_length", "none", r.val)
               /\ LineHistory(junk = <<>>, data = TrueDelivery(baud, answer, FbufLenRespLen))
    /\ rpi' = NoRead
    /\ UNCHANGED <<variant, pc, baud, _frame_ptr, remaining, sink, sinkType,
                   devBaud, devFlen, delivered, acked>>
    /\ UNCHANGED devSize
    /\ UNCHANGED CtorVars

\* read_picture_into(buf), called by the caller with a buffer of some length
ReadPictureInto ==
    /\ Call
    /\ \E bufflen \in {n \in BufLens : _frame_ptr + n <= MaxCursor} :
         \E hdr \in HdrChoices(bufflen) : \E data \in DataChoices(bufflen, hdr) :
           LET c == read_picture_into(_buffer, _frame_ptr, bufflen, hdr, data)
           IN /\ ReadEffects(bufflen, hdr, data, c)
              /\ ret' = Outcome("read_picture_into", c.exc, c.val)
    /\ UNCHANGED <<variant, pc, baud, remaining, sink, sinkType, devBaud, devFlen>>
    /\ UNCHANGED devSize
    /\ UNCHANGED CtorVars

\* the method that runs the drain loop in this class
DrainOp == IF variant = "VC0706" THEN "save_image" ELSE "take_picture"

\* save_image(name, overwrite) up to its loop: the file is there already and
\* overwrite is False (clash), or the length is asked for and the file opened
SaveImage ==
    /\ Call
    /\ variant = "VC0706"
    /\ \E clash \in BOOLEAN :
         IF clash
         THEN /\ ret' = Outcome("save_image", "ValueError", 0)
              /\ wire' = <<>>
              /\ xchg' = NoExchange
              /\ LineHistory(TRUE, TRUE)
              /\ UNCHANGED <<pc, _buffer, remaining, sink, sinkType>>
         ELSE LET answer == CamAnswer(Written(_send_command(_GET_FBUF_LEN, <<1, 0>>)))
              IN \E junk \in Junks : \E data \in Deliveries(answer, FbufLenRespLen, junk) :
                   LET r == frame_length(_buffer, junk, data)
                   IN /\ _buffer' = r.buf
                      /\ wire' = r.wire
                      /\ xchg' = Exchange(_GET_FBUF_LEN, FbufLenRespLen, data, r.ok)
                      /\ remaining' = r.val
                      /\ sink' = <<>>
                      /\ sinkType' = "FileIO"
                      /\ pc' = "drain"
                      /\ ret' = Outcome("save_image", "running", 0)
                      /\ LineHistory(junk = <<>>, data = TrueDelivery(baud, answer, FbufLenRespLen))
    /\ rpi' = NoRead
    /\ UNCHANGED <<variant, baud, _frame_ptr, devBaud, devFlen, delivered, acked>>
    /\ UNCHANGED devSize
    /\ UNCHANGED CtorVars

\* what the caller of VC0706Camera.take_picture passes: the sink, what a
\* bytearray sink holds already, width, height, fileformat
TakeArgs ==
    {[type |-> "bytearray", held |-> <<>>, width |-> 640, height |-> 480, fileformat |-> "None"],
     [type |-> "FileIO", held |-> <<>>, width |-> 320, height |-> 240, fileformat |-> "None"],
     [type |-> "bytearray", held |-> <<170>>, width |-> 160, height |-> 120, fileformat |-> "None"],
     [type |-> "str", held |-> <<>>, width |-> 640, height |-> 480, fileformat |-> "None"],
     [type |-> "bytearray", held |-> <<>>, width |-> 640, height |-> 400, fileformat |-> "None"],
     [type |-> "FileIO", held |-> <<>>, width |-> 640, height |-> 480, fileformat |-> "jpg"]}

\* the size code take_picture sets for width x height: -1 when it raises
\* instead.  width / height == 4 / 3 is 3 * width = 4 * height
SizeFor(width, height) ==
    IF width = 640 /\ 3 * width = 4 * height THEN IMAGE_SIZE_640x480
    ELSE IF width = 320 /\ 3 * width = 4 * height THEN IMAGE_SIZE_320x240
    ELSE IF width = 160 /\ 3 * width = 4 * height THEN IMAGE_SIZE_160x120
    ELSE -1

\* the checks of the sink: its type, and `isinstance(buffer, bytearray) ==
\* bytearray and len(buffer) > 0`, a comparison of a bool with a type, which
\* is never true
SinkRejected(a) ==
    \/ a.type \notin {"FileIO", "bytearray"}
    \/ (FALSE /\ Len(a.held) > 0)

\* VC0706Camera.take_picture(buffer, width, height, fileformat) up to "Now
\* stop the camera": the checks, with set_img_size between them
TakePicture ==
    /\ Call
    /\ variant = "VC0706Camera"
    /\ \E a \in TakeArgs :
         IF SinkRejected(a) \/ SizeFor(a.width, a.height) = -1
         THEN /\ ret' = Outcome("take_picture", "ValueError", 0)
              /\ wire' = <<>>
              /\ xchg' = NoExchange
              /\ LineHistory(TRUE, TRUE)
              /\ UNCHANGED <<pc, _buffer, sink, sinkType, devSize>>
         ELSE LET size == SizeFor(a.width, a.height)
                  answer == CamAnswer(Written(_send_command(_WRITE_DATA,
                                                <<5, 4, 1, 0, 25, size % 256>>)))
              IN \E junk \in Junks : \E data \in Deliveries(answer, 5, junk) :
                   LET r == set_img_size(_buffer, size, junk, data)
                   IN /\ _buffer' = r.buf
                      /\ wire' = r.wire
                      /\ devSize' = IF baud = devBaud THEN CamSize(Written(r.wire))
                                    ELSE devSize
                      /\ xchg' = Exchange(_WRITE_DATA, 5, data, r.ok)
                      /\ sink' = a.held
                      /\ sinkType' = a.type
                      /\ IF a.fileformat # "None"
                         THEN /\ pc' = "ready"
                              /\ ret' = Outcome("take_picture", "ValueError", 0)
                         ELSE /\ pc' = "tp_stop"
                              /\ ret' = Outcome("take_picture", "running", 0)
                      /\ LineHistory(junk = <<>>, data = TrueDelivery(baud, answer, 5))
    /\ rpi' = NoRead
    /\ UNCHANGED <<variant, baud, _frame_ptr, remaining, devBaud, devFlen, delivered,
                   acked>>
    /\ UNCHANGED CtorVars

\* faulty variant of StopTurn: the result of stop_video is not looked at
StopTurn_unchecked(ok) == "tp_len"

\* `if not self.stop_video()`: where take_picture goes after stop_video
\* returned ok
StopTurn(ok) == IF ok THEN "tp_len" ELSE "tp_abort"

\* take_picture: `if not self.stop_video()`
TakePictureStop ==
    /\ pc = "tp_stop"
    /\ LET answer == CamAnswer(Written(_send_command(_FBUF_CTRL, <<1, _STOPCURRENTFRAME>>)))
       IN \E junk \in Junks : \E data \in Deliveries(answer, CtrlRespLen, junk), n \in FrameLens :
            LET r == take_picture(_buffer, junk, data)
            IN /\ _frame_ptr' = r.ptr
               /\ _buffer' = r.buf
               /\ wire' = r.wire
               /\ xchg' = Exchange(_FBUF_CTRL, CtrlRespLen, data, r.ok)
               /\ pc' = StopTurn(r.ok)
               /\ devFlen' = IF baud = devBaud THEN n ELSE devFlen
               /\ LineHistory(junk = <<>>, data = TrueDelivery(baud, answer, CtrlRespLen))
    /\ delivered' = 0
    /\ acked' = 0
    /\ rpi' = NoRead
    /\ UNCHANGED <<variant, baud, remaining, sink, sinkType, ret, devBaud, calls>>
    /\ UNCHANGED devSize
    /\ UNCHANGED CtorVars

\* take_picture, stop_video failed: resume_video, then raise
TakePictureAbort ==
    /\ pc = "tp_abort"
    /\ LET answer == CamAnswer(Written(_send_command(_FBUF_CTRL, <<1, _RESUMEFRAME>>)))
       IN \E junk \in Junks : \E data \in Deliveries(answer, CtrlRespLen, junk) :
            LET r == resume_video(_buffer, junk, data)
            IN /\ _buffer' = r.buf
               /\ wire' = r.wire
               /\ xchg' = Exchange(_FBUF_CTRL, CtrlRespLen, data, r.ok)
               /\ LineHistory(junk = <<>>, data = TrueDelivery(baud, answer, CtrlRespLen))
    /\ pc' = "ready"
    /\ ret' = Outcome("take_picture", "RuntimeError", 0)
    /\ rpi' = NoRead
    /\ UNCHANGED <<variant, baud, _frame_ptr, remaining, sink, sinkType, devBaud,
                   devFlen, delivered, acked, calls>>
    /\ UNCHANGED devSize
    /\ UNCHANGED CtorVars

\* take_picture: frame_length = self.frame_length
TakePictureLength ==
    /\ pc = "tp_len"
    /\ LET answer == CamAnswer(Written(_send_command(_GET_FBUF_LEN, <<1, 0>>)))
       IN \E junk \in Junks : \E data \in Deliveries(answer, FbufLenRespLen, junk) :
            LET r == frame_length(_buffer, junk, data)
            IN /\ _buffer' = r.buf
               /\ wire' = r.wire
               /\ xchg' = Exchange(_GET_FBUF_LEN, FbufLenRespLen, data, r.ok)
               /\ remaining' = r.val
               /\ LineHistory(junk = <<>>, data = TrueDelivery(baud, answer, FbufLenRespLen))
    /\ pc' = "drain"
    /\ rpi' = NoRead
    /\ UNCHANGED <<variant, baud, _frame_ptr, sink, sinkType, ret, devBaud, devFlen,
                   delivered, acked, calls>>
    /\ UNCHANGED devSize
    /\ UNCHANGED CtorVars

\* one turn of `while frame_length > 0` in save_image / take_picture: where
\* the method goes after read_picture_into raised (exc) or returned val
DrainTurn(left, exc, val) ==
    IF exc # "none" THEN [pc |-> "ready", exc |-> exc, left |-> left, write |-> FALSE]
    ELSE IF val = 0
    THEN [pc |-> "ready", exc |-> "RuntimeError", left |-> left, write |-> FALSE]
    ELSE [pc |-> "drain", exc |-> "running", left |-> left - CopySize, write |-> TRUE]

DrainStep ==
    /\ pc = "drain"
    /\ remaining > 0
    /\ LET to_read == Min(remaining, CopySize) IN
       \E hdr \in HdrChoices(to_read) : \E data \in DataChoices(to_read, hdr) :
         LET c == read_picture_into(_buffer, _frame_ptr, to_read, hdr, data)
             t == DrainTurn(remaining, c.exc, c.val)
         IN /\ ReadEffects(to_read, hdr, data, c)
            /\ pc' = t.pc
            /\ ret' = Outcome(DrainOp, t.exc, 0)
            /\ remaining' = t.left
            /\ sink' = IF t.write THEN sink \o c.out ELSE sink
    /\ UNCHANGED <<variant, baud, sinkType, devBaud, devFlen, calls>>
    /\ UNCHANGED devSize
    /\ UNCHANGED CtorVars

\* save_image after its loop: return True
SaveImageEnd ==
    /\ pc = "drain"
    /\ remaining <= 0
    /\ variant = "VC0706"
    /\ pc' = "ready"
    /\ ret' = Outcome("save_image", "none", 1)
    /\ wire' = <<>>
    /\ xchg' = NoExchange
    /\ rpi' = NoRead
    /\ UNCHANGED <<variant, baud, _buffer, _frame_ptr, remaining, sink, sinkType,
                   devBaud, devFlen, faithful, faults, delivered, acked, calls>>
    /\ UNCHANGED devSize
    /\ UNCHANGED CtorVars

\* take_picture after its loop: resume_video, return True
TakePictureEnd ==
    /\ pc = "drain"
    /\ remaining <= 0
    /\ variant = "VC0706Camera"
    /\ LET answer == CamAnswer(Written(_send_command(_FBUF_CTRL, <<1, _RESUMEFRAME>>)))
       IN \E junk \in Junks : \E data \in Deliveries(answer, CtrlRespLen, junk) :
            LET r == resume_video(_buffer, junk, data)
            IN /\ _buffer' = r.buf
               /\ wire' = r.wire
               /\ xchg' = Exchange(_FBUF_CTRL, CtrlRespLen, data, r.ok)
               /\ LineHistory(junk = <<>>, data = TrueDelivery(baud, answer, CtrlRespLen))
    /\ pc' = "ready"
    /\ ret' = Outcome("take_picture", "none", 1)
    /\ rpi' = NoRead
    /\ UNCHANGED <<variant, baud, _frame_ptr, remaining, sink, sinkType, devBaud,
                   devFlen, delivered, acked, calls>>
    /\ UNCHANGED devSize
    /\ UNCHANGED CtorVars

\* the divider the baudrate setter looks up for baud: -1 when it raises
\* instead; a variant whose else branch falls back to a default
BaudDivider_default(b) ==
    IF b = 9600 THEN _BAUDRATE_9600
    ELSE IF b = 19200 THEN _BAUDRATE_19200
    ELSE IF b = 38400 THEN _BAUDRATE_38400
    ELSE IF b = 57600 THEN _BAUDRATE_57600
    ELSE IF b = 115200 THEN _BAUDRATE_115200
    ELSE _BAUDRATE_38400

BaudDivider(b) ==
    IF b = 9600 THEN _BAUDRATE_9600
    ELSE IF b = 19200 THEN _BAUDRATE_19200
    ELSE IF b = 38400 THEN _BAUDRATE_38400
    ELSE IF b = 57600 THEN _BAUDRATE_57600
    ELSE IF b = 115200 THEN _BAUDRATE_115200
    ELSE -1

SetPortArgs(divider) == <<3, 1, (divider \div 256) % 256, divider % 256>>

\* the rate a camera that hears a SET_PORT command frame switches to
CamBaud(frame) ==
    LET d == BE(SubSeq(frame, 6, 7))
    IN IF \E i \in 1..Len(Ladder) : BaudDivider(Ladder[i]) = d
       THEN Ladder[CHOOSE i \in 1..Len(Ladder) : BaudDivider(Ladder[i]) = d]
       ELSE devBaud

\* the values a caller assigns to baudrate
BaudInputs == {9600, 31250}

\* baudrate = b (setter)
SetBaudrate ==
    /\ Call
    /\ \E b \in BaudInputs :
         IF BaudDivider(b) = -1
         THEN /\ ret' = Outcome("baudrate", "ValueError", b)
              /\ wire' = <<>>
              /\ xchg' = NoExchange
              /\ LineHistory(TRUE, TRUE)
              /\ UNCHANGED <<baud, _buffer, devBaud>>
         ELSE LET args == SetPortArgs(BaudDivider(b))
                  frame == Written(_send_command(_SET_PORT, args))
                  answer == CamAnswer(frame)
              IN \E junk \in Junks : \E data \in Deliveries(answer, SetPortRespLen, junk) :
                   LET r == _run_command(_buffer, _SET_PORT, args, SetPortRespLen,
                                         TRUE, junk, data)
                   IN /\ _buffer' = r.buf
                      /\ wire' = r.wire \o <<BaudEv(b)>>
                      /\ xchg' = Exchange(_SET_PORT, SetPortRespLen, data, r.ok)
                      /\ baud' = b
                      /\ devBaud' = IF baud = devBaud THEN CamBaud(frame) ELSE devBaud
                      /\ ret' = Outcome("baudrate", "none", b)
                      /\ LineHistory(junk = <<>>,
                                     data = TrueDelivery(baud, answer, SetPortRespLen))
    /\ rpi' = NoRead
    /\ UNCHANGED <<variant, pc, _frame_ptr, remaining, sink, sinkType, devFlen,
                   delivered, acked>>
    /\ UNCHANGED devSize
    /\ UNCHANGED CtorVars

\* faulty variant of version: the answer is not read
version_no_read(buf, data) ==
    [val |-> 0, buf |-> buf, wire |-> _send_command(_GEN_VERSION, <<1>>)]

\* version (property): the command is sent without _run_command, and
\* whatever one read of the whole scratch buffer delivers is returned
version(buf, data) ==
    LET r == _read_response(buf, buf.size, data)
    IN [val |-> r.n, buf |-> r.buf,
        wire |-> _send_command(_GEN_VERSION, <<1>>) \o <<ReadEv(buf.size, r.n)>>]

Version ==
    /\ Call
    /\ LET answer == CamAnswer(Written(_send_command(_GEN_VERSION, <<1>>)))
       IN \E data \in Deliveries(answer, _buffer.size, <<>>) :
            LET r == version(_buffer, data)
            IN /\ _buffer' = r.buf
               /\ wire' = r.wire
               /\ ret' = Outcome("version", "none", r.val)
               /\ LineHistory(TRUE, data = TrueDelivery(baud, answer, _buffer.size))
    /\ xchg' = NoExchange
    /\ rpi' = NoRead
    /\ UNCHANGED <<variant, pc, baud, _frame_ptr, remaining, sink, sinkType,
                   devBaud, devFlen, delivered, acked>>
    /\ UNCHANGED devSize
    /\ UNCHANGED CtorVars

\* the args the image_size getter sends: the bytes of b"\0x04\x04\x01\x00\x19"
ReadSizeArgs == <<0, 120, 48, 52, 4, 1, 0, 25>>

\* image_size (getter)
image_size(buf, junk, data) ==
    LET r == _run_command(buf, _READ_DATA, ReadSizeArgs, ReadDataRespLen, TRUE, junk, data)
    IN [exc |-> IF ~r.ok THEN "RuntimeError" ELSE "none",
        val |-> IF ~r.ok THEN 0 ELSE At(r.buf, 5),
        ok |-> r.ok, buf |-> r.buf, wire |-> r.wire]

\* the size byte a camera may answer with when the read-data command it
\* heard does not address its size register
SizeBytes == {IMAGE_SIZE_160x120, 51}

CamSizeAnswer(sz) == CamAck(_READ_DATA) \o <<1, sz>>

\* the read-data command frame that addresses the register set_img_size
\* writes: 4 argument bytes, device type 4, 1 byte, address 0x0019
ReadSizeFrame == <<86, _SERIAL, _READ_DATA, 4, 4, 1, 0, 25>>

\* what the camera may send back for a read-data command frame: the code its
\* size register holds when the frame addresses the register
CamSizeAnswers(frame) ==
    IF frame = ReadSizeFrame
    THEN {CamSizeAnswer(devSize)}
    ELSE {CamSizeAnswer(sz) : sz \in SizeBytes}

GetImageSize ==
    /\ Call
    /\ \E answer \in CamSizeAnswers(Written(_send_command(_READ_DATA, ReadSizeArgs))) :
         \E junk \in Junks : \E data \in Deliveries(answer, ReadDataRespLen, junk) :
           LET r == image_size(_buffer, junk, data)
           IN /\ _buffer' = r.buf
              /\ wire' = r.wire
              /\ xchg' = Exchange(_READ_DATA, ReadDataRespLen, data, r.ok)
              /\ ret' = Outcome("image_size", r.exc, r.val)
              /\ LineHistory(junk = <<>>,
                             data = TrueDelivery(baud, answer, ReadDataRespLen))
    /\ rpi' = NoRead
    /\ UNCHANGED <<variant, pc, baud, _frame_ptr, remaining, sink, sinkType,
                   devBaud, devFlen, delivered, acked>>
    /\ UNCHANGED devSize
    /\ UNCHANGED CtorVars

\* faulty variant of SizeLegal: no check
SizeLegal_any(size) == TRUE

\* `size not in (IMAGE_SIZE_640x480, IMAGE_SIZE_320x240, IMAGE_SIZE_160x120)`
SizeLegal(size) == size \in {IMAGE_SIZE_640x480, IMAGE_SIZE_320x240, IMAGE_SIZE_160x120}

\* the sizes a caller sets, and the two ways to set one: assigning to the
\* property image_size, calling set_img_size
SizeInputs == {IMAGE_SIZE_320x240, 5}

SetOps == {"image_size_setter", "set_img_size"}

\* what the caller gets back: the value of the call set_img_size(size); an
\* assignment statement hands nothing back
Reported(via, ok) == IF via = "set_img_size" /\ ok THEN 1 ELSE 0

\* image_size = size / set_img_size(size)
SetImageSize ==
    /\ Call
    /\ \E size \in SizeInputs, via \in SetOps :
         IF ~SizeLegal(size)
         THEN /\ ret' = Outcome(via, "ValueError", size)
              /\ wire' = <<>>
              /\ xchg' = NoExchange
              /\ LineHistory(TRUE, TRUE)
              /\ UNCHANGED <<_buffer, devSize>>
         ELSE LET answer == CamAnswer(Written(_send_command(_WRITE_DATA,
                                                <<5, 4, 1, 0, 25, size % 256>>)))
              IN \E junk \in Junks : \E data \in Deliveries(answer, 5, junk) :
                   LET r == set_img_size(_buffer, size, junk, data)
                   IN /\ _buffer' = r.buf
                      /\ wire' = r.wire
                      /\ devSize' = IF baud = devBaud THEN CamSize(Written(r.wire))
                                    ELSE devSize
                      /\ xchg' = Exchange(_WRITE_DATA, 5, data, r.ok)
                      /\ ret' = Outcome(via, "none", Reported(via, r.ok))
                      /\ LineHistory(junk = <<>>, data = TrueDelivery(baud, answer, 5))
    /\ rpi' = NoRead
    /\ UNCHANGED <<variant, pc, baud, _frame_ptr, remaining, sink, sinkType,
                   devBaud, devFlen, delivered, acked>>
    /\ UNCHANGED CtorVars

\* the operations that configure the camera
NextConfig ==
    \/ Version
    \/ GetImageSize
    \/ SetImageSize
    \/ SetBaudrate

SpecConfig == Init /\ [][NextConfig]_vars

\* the operations that capture and read a frame
Next ==
    \/ BeginCapture
    \/ ResumeVideo
    \/ FrameLength
    \/ ReadPictureInto
    \/ SaveImage
    \/ TakePicture
    \/ TakePictureStop
    \/ TakePictureAbort
    \/ TakePictureLength
    \/ DrainStep
    \/ SaveImageEnd
    \/ TakePictureEnd

Spec == Init /\ [][Next]_vars

\* every public operation of a constructed session
NextAll == Next \/ NextConfig

\* buffer_size when the caller does not pass one
DefaultBufferSize == 100

\* the session as construction with the default buffer_size leaves it
InitAll == Init /\ _buffer.size = DefaultBufferSize

SpecAll == InitAll /\ [][NextAll]_vars

----------------------------------------------------------------------------
(* A long frame: the caller drains it with read_picture_into over a clean
   line, and asks for frame_length in between *)

\* buffer_size passed to the constructor, and the length of the caller's buffer
LongBufferSize == 257

LongChunk == 252

\* lengths of the frame the camera holds
LongFrameLens == {100000}

\* the session as construction leaves it, the camera holding a long frame
InitLong ==
    /\ variant \in Variants
    /\ pc = "ready"
    /\ pass = Passes - 1
    /\ baud \in SessionBauds
    /\ idx = PositionOf(baud)
    /\ devBaud = baud
    /\ \E c \in {LongBufferSize} :
         /\ _buffer = [size |-> c, used |-> Trim(CamAnswer(<<86, _SERIAL, _RESET, 0>>))]
         /\ wire = <<BaudEv(baud), ReadEv(c, 0)>> \o _send_command(_RESET, <<0>>)
                     \o <<ReadEv(ResetRespLen, ResetRespLen)>>
    /\ _frame_ptr = 0
    /\ remaining = 0
    /\ sink = <<>>
    /\ sinkType = "none"
    /\ ret = Outcome("__init__", "none", 0)
    /\ xchg = Exchange(_RESET, ResetRespLen, CamAnswer(<<86, _SERIAL, _RESET, 0>>), TRUE)
    /\ rpi = NoRead
    /\ devFlen \in LongFrameLens
    /\ devSize \in InitialSizes
    /\ nreset = Passes * idx
    /\ resetOks = Passes
    /\ streak = 0
    /\ allShort = FALSE
    /\ faithful = TRUE
    /\ faults = 0
    /\ delivered = 0
    /\ acked = 0
    /\ calls = 0


\* read_picture_into(bytearray(LongChunk)) over a clean line
LongRead ==
    /\ pc = "ready"
    /\ _frame_ptr <= MaxLongCursor
    /\ LET hdr == TrueDelivery(baud, HdrAnswer(_frame_ptr, LongChunk), ReadFbufRespLen)
           data == TrueDelivery(baud, DataAnswer(_frame_ptr, LongChunk),
                                LongChunk + DataOverhead)
           c == read_picture_into(_buffer, _frame_ptr, LongChunk, hdr, data)
       IN /\ ReadEffects(LongChunk, hdr, data, c)
          /\ ret' = Outcome("read_picture_into", c.exc, c.val)
    /\ UNCHANGED <<variant, pc, baud, remaining, sink, sinkType, devBaud, devFlen, calls>>
    /\ UNCHANGED devSize
    /\ UNCHANGED CtorVars

NextLong ==
    \/ LongRead
    \/ FrameLength

SpecLong == InitLong /\ [][NextLong]_vars

----------------------------------------------------------------------------
(* The class VC0706Camera: its own text of the methods it has in common with
   VC0706, each given what the line delivers to its reads *)

\* VC0706Camera._send_command
VC0706Camera_send_command(cmd, args) ==
    <<WriteEv(<<86, _SERIAL, cmd % 256>>)>>
      \o (IF args # <<>> THEN <<WriteEv(args)>> ELSE <<>>)

\* VC0706Camera._read_response
VC0706Camera_read_response(result, numbytes, data) ==
    [buf |-> [result EXCEPT
                !.used = Trim(data \o SubSeq(result.used, Len(data) + 1, Len(result.used)))],
     n |-> Len(data)]

\* VC0706Camera._verify_response
VC0706Camera_verify_response(buf, cmd) ==
    /\ At(buf, 0) = 118
    /\ At(buf, 1) = _SERIAL
    /\ At(buf, 2) = cmd % 256
    /\ At(buf, 3) = 0

\* VC0706Camera._run_command
VC0706Camera_run_command(buf, cmd, args, resplen, flush, junk, data) ==
    LET drained == IF flush THEN VC0706Camera_read_response(buf, buf.size, junk).buf
                   ELSE buf
        r == VC0706Camera_read_response(drained, resplen, data)
        ok == IF r.n # resplen THEN FALSE
              ELSE IF ~VC0706Camera_verify_response(r.buf, cmd) THEN FALSE
              ELSE TRUE
    IN [ok |-> ok,
        buf |-> r.buf,
        wire |-> (IF flush THEN <<ReadEv(buf.size, Len(junk))>> ELSE <<>>)
                   \o VC0706Camera_send_command(cmd, args)
                   \o <<ReadEv(resplen, r.n)>>]

\* VC0706Camera.__init__: one turn of the inner loop, in turn p of the outer
\* loop and at candidate i of the ladder
VC0706Camera__init__(p, i, buf, junk, data) ==
    LET ladder == <<9600, 19200, 38400, 57600, 115200>>
        r == VC0706Camera_run_command(buf, _RESET, <<0>>, 5, TRUE, junk, data)
        to == IF r.ok
              THEN IF p + 1 < 2
                   THEN [pc |-> "init", pass |-> p + 1, idx |-> 1]
                   ELSE [pc |-> "ready", pass |-> p, idx |-> i]
              ELSE IF i < Len(ladder)
                   THEN [pc |-> "init", pass |-> p, idx |-> i + 1]
                   ELSE [pc |-> "failed", pass |-> p, idx |-> i]
    IN [baud |-> ladder[i], buf |-> r.buf, ok |-> r.ok,
        wire |-> <<BaudEv(ladder[i])>> \o r.wire,
        pc |-> to.pc, pass |-> to.pass, idx |-> to.idx,
        exc |-> IF to.pc = "failed" THEN "RuntimeError" ELSE "none"]

\* VC0706Camera.baudrate (setter), the transport running at cur
VC0706Camera_baudrate(buf, cur, b, junk, data) ==
    LET divider == IF b = 9600 THEN _BAUDRATE_9600
                   ELSE IF b = 19200 THEN _BAUDRATE_19200
                   ELSE IF b = 38400 THEN _BAUDRATE_38400
                   ELSE IF b = 57600 THEN _BAUDRATE_57600
                   ELSE IF b = 115200 THEN _BAUDRATE_115200
                   ELSE -1
        args == <<3, 1, (divider \div 256) % 256, divider % 256>>
        r == VC0706Camera_run_command(buf, _SET_PORT, args, 7, TRUE, junk, data)
    IN IF divider = -1
       THEN [exc |-> "ValueError", baud |-> cur, buf |-> buf, wire |-> <<>>]
       ELSE [exc |-> "none", baud |-> b, buf |-> r.buf, wire |-> r.wire \o <<BaudEv(b)>>]

\* VC0706Camera.frame_length (property)
VC0706Camera_frame_length(buf, junk, data) ==
    LET r == VC0706Camera_run_command(buf, _GET_FBUF_LEN, <<1, 0>>, 9, TRUE, junk, data)
    IN [val |-> IF ~r.ok THEN 0
                ELSE ((At(r.buf, 5) * 256 + At(r.buf, 6)) * 256 + At(r.buf, 7)) * 256
                       + At(r.buf, 8),
        ok |-> r.ok, buf |-> r.buf, wire |-> r.wire]

\* faulty variant of stop_video: the cursor is left where it is
stop_video_keeps_cursor(buf, junk, data) ==
    LET r == VC0706Camera_run_command(buf, _FBUF_CTRL, <<1, _STOPCURRENTFRAME>>, 5,
                                      TRUE, junk, data)
    IN [ptr |-> _frame_ptr, ok |-> r.ok, buf |-> r.buf, wire |-> r.wire]

\* VC0706Camera.stop_video
stop_video(buf, junk, data) ==
    LET r == VC0706Camera_run_command(buf, _FBUF_CTRL, <<1, _STOPCURRENTFRAME>>, 5,
                                      TRUE, junk, data)
    IN [ptr |-> 0, ok |-> r.ok, buf |-> r.buf, wire |-> r.wire]

\* VC0706Camera.resume_video
VC0706Camera_resume_video(buf, junk, data) ==
    LET r == VC0706Camera_run_command(buf, _FBUF_CTRL, <<1, _RESUMEFRAME>>, 5,
                                      TRUE, junk, data)
    IN [ok |-> r.ok, buf |-> r.buf, wire |-> r.wire]

\* VC0706Camera.read_picture_into
VC0706Camera_read_picture_into(buf, ptr, bufflen, hdr, data) ==
    IF bufflen > 256 \/ bufflen > buf.size - 5
    THEN [exc |-> "ValueError", val |-> 0, buf |-> buf, ptr |-> ptr,
          out |-> Blank(bufflen), wire |-> <<>>]
    ELSE IF bufflen % 4 # 0
    THEN [exc |-> "ValueError", val |-> 0, buf |-> buf, ptr |-> ptr,
          out |-> Blank(bufflen), wire |-> <<>>]
    ELSE
      LET args == <<12, 0, 10, 0, 0, (ptr \div 256) % 256, ptr % 256, 0, 0, 0,
                    bufflen % 256, (_CAMERA_DELAY \div 256) % 256, _CAMERA_DELAY % 256>>
          r == VC0706Camera_run_command(buf, _READ_FBUF, args, 5, FALSE, <<>>, hdr)
          d == VC0706Camera_read_response(r.buf, bufflen + 5, data)
      IN IF ~r.ok
         THEN [exc |-> "none", val |-> 0, buf |-> r.buf, ptr |-> ptr,
               out |-> Blank(bufflen), wire |-> r.wire]
         ELSE IF d.n = 0
         THEN [exc |-> "none", val |-> 0, buf |-> d.buf, ptr |-> ptr,
               out |-> Blank(bufflen),
               wire |-> r.wire \o <<ReadEv(bufflen + 5, d.n)>>]
         ELSE [exc |-> "none", val |-> bufflen, buf |-> d.buf, ptr |-> ptr + bufflen,
               out |-> [i \in 1..bufflen |-> At(d.buf, i - 1)],
               wire |-> r.wire \o <<ReadEv(bufflen + 5, d.n)>>]

\* the construction went through at the first candidate of both passes, over
\* a line that delivered the camera's answers until the caller's first call
BuiltAtOnce == pc = "ready" /\ nreset = Passes /\ (faithful \/ calls > 0)

\* a session from its construction on: the constructor, then, on a session
\* built at once, the methods the two classes have in common
NextTwin ==
    \/ Probe
    \/ BuiltAtOnce /\ SetBaudrate
    \/ BuiltAtOnce /\ FrameLength
    \/ BuiltAtOnce /\ ReadPictureInto
    \/ BuiltAtOnce /\ ResumeVideo
    \/ BuiltAtOnce /\ BeginCapture

\* construction with the default buffer_size
InitTwin == InitCtor /\ _buffer.size = DefaultBufferSize

SpecTwin == InitTwin /\ [][NextTwin]_vars

----------------------------------------------------------------------------
(* Properties of the construction (checked under SpecCtor) *)

\* the ladder as the documentation gives it
LadderAsc == <<9600, 19200, 38400, 57600, 115200>>

\* a step that makes a RESET exchange sets the baud rate to the first
\* candidate at the start of a pass, and to the next higher candidate after
\* a failed exchange
ProbeInOrder ==
    nreset' = nreset + 1 =>
      IF nreset = 0 \/ xchg.ok
      THEN baud' = LadderAsc[1]
      ELSE \E j \in 1..4 : baud = LadderAsc[j] /\ baud' = LadderAsc[j + 1]

\* C2: against a camera that answers RESET at its own baud rate B only, and a
\* clean line, construction succeeds with the transport at B; the candidates
\* are set in ascending ladder order, each one only after the one below it
\* was probed and failed.
C2_ConvergesInLadderOrder ==
    /\ [](faithful /\ pc # "init" => pc = "ready" /\ baud = devBaud)
    /\ [](faithful /\ pc = "init" /\ nreset > 0 /\ ~xchg.ok => baud < devBaud)
    /\ [][ProbeInOrder]_vars

C2_Witness ==
    /\ faithful
    /\ pc = "ready"
    /\ devBaud = 38400
    /\ baud = 38400
    /\ nreset = 6

\* C3 as stated: once a RESET exchange was taken as valid, no further RESET
\* exchange is made and the baud rate is not set again.
C3_StopsAtFirstValid ==
    [][resetOks >= 1 => nreset' = nreset /\ baud' = baud]_vars

\* C3, amended: each of the two passes stops at its first valid RESET
\* response; the first valid response starts the second pass at 9600, and
\* construction ends with the second valid response, after which no RESET
\* exchange is made and the baud rate is not set again.
C3_StopsAtSecondValid ==
    /\ [](resetOks <= 2 /\ resetOks = (IF pc = "ready" THEN 2 ELSE pass))
    /\ [][resetOks >= 2 => nreset' = nreset /\ baud' = baud]_vars
    /\ [][resetOks = 1 /\ resetOks' = 2 => pc' = "ready" /\ xchg'.ok]_vars
    /\ [][resetOks = 0 /\ resetOks' = 1 => pc' = "init" /\ idx' = 1]_vars

C3_Witness ==
    /\ pc = "ready"
    /\ resetOks = 2
    /\ nreset = 4
    /\ baud = 19200

\* C4: when every RESET exchange returns fewer than the 5 bytes asked for,
\* construction raises RuntimeError after the five candidates and never
\* yields a session; construction makes at most 10 RESET exchanges, and every
\* step of it makes one.
C4_ShortReadsFail ==
    /\ [](allShort => pc \in {"init", "failed"})
    /\ [](allShort /\ nreset >= 5 => pc = "failed")
    /\ [](pc = "failed" => ret = Outcome("__init__", "RuntimeError", 0))
    /\ [](nreset <= 10 /\ (pc = "init" => nreset < 10))
    /\ [][pc = "init" => nreset' = nreset + 1]_vars

C4_Witness ==
    /\ allShort
    /\ pc = "failed"
    /\ nreset = 5
    /\ Len(xchg.data) = ShortLen
    /\ ret.exc = "RuntimeError"

\* C5 as stated: the error is raised only after both passes, 10 RESET
\* exchanges in all.
C5_FailsAfterBothPasses == pc = "failed" => nreset = 10

\* C5, amended: the error is raised as soon as all five candidates have
\* failed within one pass.  A first pass without a valid response raises it
\* after 5 RESET exchanges, with no second pass; the second pass is made only
\* after a valid response in the first, and raises it when its five
\* candidates fail.
C5_FailsAfterOnePass ==
    /\ pc = "failed" <=> streak = 5
    /\ pc = "failed" /\ resetOks = 0 => nreset = 5 /\ pass = 0
    /\ pc = "failed" /\ resetOks > 0 => resetOks = 1 /\ pass = 1 /\ nreset \in 6..10
    /\ pass = 1 => resetOks >= 1

C5_Witness ==
    /\ pc = "failed"
    /\ resetOks = 0
    /\ nreset = 5
    /\ ~allShort

----------------------------------------------------------------------------
(* Properties of a constructed session, checked under Spec, SpecConfig or
   SpecAll *)

\* the four bytes every response starts with
Prefix(cmd) == <<118, _SERIAL, cmd % 256, 0>>

\* C1: _run_command reports success if and only if its response read
\* delivered exactly resplen bytes and the first four of them are 0x76, 0x00,
\* cmd, 0x00; a short read or one differing prefix byte makes it fail
C1_SuccessIffFullAndPrefixed ==
    xchg # NoExchange =>
      (xchg.ok <=> /\ Len(xchg.data) = xchg.resplen
                   /\ Len(xchg.data) >= 4
                   /\ SubSeq(xchg.data, 1, 4) = Prefix(xchg.cmd))

\* a frame-length exchange whose response came in full with only the status
\* byte differing, reported as failed
C1_Witness ==
    /\ xchg.cmd = _GET_FBUF_LEN
    /\ Len(xchg.data) = xchg.resplen
    /\ SubSeq(xchg.data, 1, 3) = <<118, _SERIAL, _GET_FBUF_LEN>>
    /\ xchg.data[4] # 0
    /\ ~xchg.ok

\* C6: an accepted read_picture_into call returns len(buf) and advances the
\* cursor by len(buf) only when the header exchange succeeded and the data
\* read delivered all len(buf)+5 bytes, buf then holding the first len(buf)
\* of them; in every other case it returns 0 and leaves the cursor alone
C6_ReadAllOrNothing ==
    rpi # NoRead /\ rpi.exc = "none" =>
      IF rpi.hdrOk /\ Len(rpi.data) = rpi.bufflen + DataOverhead
      THEN /\ rpi.val = rpi.bufflen
           /\ rpi.after = rpi.before + rpi.bufflen
           /\ rpi.buf = Take(rpi.data, rpi.bufflen)
      ELSE /\ rpi.val = 0
           /\ rpi.after = rpi.before

\* C7: the cursor equals the sum of the sizes of the reads that returned
\* non-zero since the capture began, and equals the number of frame bytes
\* the camera delivered to the host since then
C7_CursorCountsDelivered ==
    /\ _frame_ptr = acked
    /\ _frame_ptr = delivered

\* C8: once a capture froze a frame, the cursor never exceeds the length
\* the camera reports for it
C8_CursorWithinFrame == devFlen > 0 => _frame_ptr <= devFlen

\* what the sinks passed to take_picture hold beforehand
Helds == {a.held : a \in TakeArgs}

\* C9: over a camera that answers every exchange correctly and holds a
\* frame of N > 0 bytes, the drain loop of save_image / take_picture ends
\* without an error, and a drain that ends with the cursor at N has put the
\* N frame bytes in the sink, in order, behind what the sink held
C9_DrainRoundTrip ==
    /\ faithful /\ devFlen > 0 /\ pc = "ready" /\ ret.op = DrainOp /\ rpi # NoRead
         => ret.exc = "none"
    /\ faithful /\ devFlen > 0 /\ pc = "ready" /\ ret = Outcome(DrainOp, "none", 1)
         /\ _frame_ptr = devFlen
         => \E h \in Helds : sink = h \o Frame

\* the largest buffer the documentation of read_picture_into allows
DocMaxBuf == 100

\* C10: read_picture_into rejects, before any transport call and with the
\* cursor unchanged, every buffer whose length is not a multiple of 4, or
\* above 100, or above the capacity of the scratch buffer minus 5
C10_RejectsBadBuffers ==
    rpi # NoRead /\ (\/ rpi.bufflen % 4 # 0
                     \/ rpi.bufflen > DocMaxBuf
                     \/ rpi.bufflen > _buffer.size - DataOverhead)
      => /\ rpi.exc = "ValueError"
         /\ wire = <<>>
         /\ rpi.after = rpi.before

\* the sub-commands of the frame-buffer-control commands a step wrote, in order
RECURSIVE CtrlsOf(_)
CtrlsOf(w) ==
    IF Len(w) < 2 THEN <<>>
    ELSE IF w[1] = WriteEv(<<86, _SERIAL, _FBUF_CTRL>>) /\ w[2].op = "write"
         THEN <<w[2].bytes[2]>> \o CtrlsOf(Tail(Tail(w)))
         ELSE CtrlsOf(Tail(w))

\* VC0706Camera.take_picture has returned or raised after its stop-current
\* command was sent: every way back to the caller but the argument checks
AfterCapture ==
    /\ variant = "VC0706Camera"
    /\ pc = "ready"
    /\ ret.op = "take_picture"
    /\ ret.exc # "running"
    /\ ~(ret.exc = "ValueError" /\ rpi = NoRead)

\* C11: when VC0706Camera.take_picture hands control back after sending
\* stop-current, the last thing it did was to write a resume command
C11_CaptureEndsWithResume ==
    AfterCapture => CtrlsOf(wire) # <<>> /\ CtrlsOf(wire)[Len(CtrlsOf(wire))] = _RESUMEFRAME

\* C12: a baudrate assignment whose SET_PORT exchange fails leaves the
\* transport's baud rate at its previous value
C12_BaudSwitchNeedsAck ==
    [][ret'.op = "baudrate" /\ calls' = calls + 1 /\ ~xchg'.ok => baud' = baud]_vars

\* C13: assigning a rate outside the ladder raises, makes no transport call
\* and leaves the transport's baud rate unchanged
C13_UnsupportedBaudRejected ==
    [][ret'.op = "baudrate" /\ calls' = calls + 1
         /\ (\A i \in 1..Len(Ladder) : ret'.val # Ladder[i])
       => ret'.exc = "ValueError" /\ wire' = <<>> /\ baud' = baud]_vars

C13_Witness ==
    /\ ret = Outcome("baudrate", "ValueError", 31250)
    /\ wire = <<>>
    /\ calls = 2
    /\ baud = 9600

\* the offset a read-frame-buffer command carries
OffsetOf(w) == BE(SubSeq(Written(w), 7, 10))

\* the public method that begins a capture in this class
BeginOp == IF variant = "VC0706" THEN "take_picture" ELSE "stop_video"

\* a step that begins a capture: the public method, or stop_video called by
\* VC0706Camera.take_picture
BeginsCapture == (calls' = calls + 1 /\ ret'.op = BeginOp) \/ pc = "tp_stop"

\* C15: beginning a capture sets the cursor to 0 whatever it was and whether
\* or not the camera acknowledges, sends frame-buffer-control with
\* stop-current, and returns failure when there is no acknowledgement; the
\* read command that follows asks for offset 0
C15_BeginCaptureResets ==
    /\ [][BeginsCapture =>
            /\ _frame_ptr' = 0
            /\ Written(wire') = <<86, _SERIAL, _FBUF_CTRL, 1, _STOPCURRENTFRAME>>
            /\ xchg'.cmd = _FBUF_CTRL]_vars
    /\ [][calls' = calls + 1 /\ ret'.op = BeginOp =>
            ret' = Outcome(BeginOp, "none", IF xchg'.ok THEN 1 ELSE 0)]_vars
    /\ [][pc = "tp_stop" => pc' = IF xchg'.ok THEN "tp_len" ELSE "tp_abort"]_vars
    /\ [][pc = "ready" /\ ret.op = BeginOp /\ rpi' # NoRead /\ wire' # <<>> =>
            OffsetOf(wire') = 0]_vars

\* a capture begun without acknowledgement after a read had brought frame
\* data into the scratch buffer (and so moved the cursor)
C15_Witness ==
    /\ ret = Outcome(BeginOp, "none", 0)
    /\ ~xchg.ok
    /\ _frame_ptr = 0
    /\ Len(_buffer.used) > FbufLenRespLen
    /\ calls = 2

\* the reads and writes of a step, without the baud rate assignments
IO(w) == SelectSeq(w, LAMBDA e : e.op # "baudrate")

\* read_picture_into is the one caller that passes flush=False
Flushes(cmd) == cmd # _READ_FBUF

\* C16: a _run_command call makes at most one drain read (when flush is
\* set, of the scratch buffer's capacity), then writes the command frame
\* once (header 0x56, 0x00, opcode, then the args), then makes one response
\* read; what the drain read found does not enter the outcome; the only
\* further read of the step is the data read of read_picture_into
C16_OneDrainOneWriteOneRead ==
    xchg # NoExchange =>
      LET w == IO(wire)
          d == IF Flushes(xchg.cmd) THEN 1 ELSE 0
      IN /\ Len(w) >= d + 3
         /\ d = 1 => w[1].op = "read" /\ w[1].n = _buffer.size /\ w[1].got <= w[1].n
         /\ w[d + 1] = WriteEv(<<86, _SERIAL, xchg.cmd>>)
         /\ w[d + 2].op = "write"
         /\ w[d + 3] = ReadEv(xchg.resplen, Len(xchg.data))
         /\ \/ Len(w) = d + 3
            \/ /\ xchg.cmd = _READ_FBUF
               /\ xchg.ok
               /\ Len(w) = d + 4
               /\ w[d + 4].op = "read"
         /\ xchg.ok = (ReadEv(xchg.resplen, xchg.resplen) = w[d + 3]
                         /\ Take(xchg.data, 4) = Prefix(xchg.cmd))

\* an exchange that succeeded after its drain read had found bytes in the line
C16_Witness ==
    /\ xchg.ok
    /\ xchg.cmd = _GET_FBUF_LEN
    /\ IO(wire)[1] = ReadEv(_buffer.size, JunkLen)
    /\ Len(IO(wire)) = 4

\* the first write of a command frame: the three header bytes
IsHeader(e) == e.op = "write" /\ Len(e.bytes) = 3 /\ e.bytes[1] = 86

\* C17: no command frame is written before a response read was attempted
\* for the command frame written before it: in the transport calls of
\* every step, each header write is followed by a read before the next
\* header write and before the step ends
C17_HalfDuplex ==
    LET w == IO(wire)
    IN \A i \in 1..Len(w) :
         IsHeader(w[i]) =>
           \E k \in (i + 1)..Len(w) :
             /\ w[k].op = "read"
             /\ \A j \in (i + 1)..(k - 1) : ~IsHeader(w[j])

\* version asked for after a read_picture_into that brought frame data in
C17_Witness ==
    /\ ret = Outcome("version", "none", 5)
    /\ calls = 2
    /\ Len(_buffer.used) > FbufLenRespLen
    /\ Len(IO(wire)) = 3

\* the three size codes: 0x00 (640x480), 0x11 (320x240), 0x22 (160x120)
LegalCodes == {0, 17, 34}

\* C18: the image_size getter yields only one of the three legal codes
C18_OnlyLegalSizes ==
    ret.op = "image_size" /\ ret.exc = "none" => ret.val \in LegalCodes

\* the command frame that sets the size code sz
SetSizeFrame(sz) == <<86, _SERIAL, _WRITE_DATA, 5, 4, 1, 0, 25, sz>>

\* C19, as claimed: an illegal size raises ValueError with no transport
\* call; a legal one sends one WRITE_DATA command ending in the size code,
\* and the caller is told whether the camera acknowledged
C19_SetSizeReports ==
    ret.op \in SetOps =>
      IF ret.exc = "ValueError"
      THEN ret.val \notin LegalCodes /\ wire = <<>>
      ELSE /\ ret.exc = "none"
           /\ \E sz \in LegalCodes : Written(wire) = SetSizeFrame(sz)
           /\ Len(SelectSeq(wire, IsHeader)) = 1
           /\ xchg.cmd = _WRITE_DATA
           /\ ret.val = (IF xchg.ok THEN 1 ELSE 0)

\* C19, amended: the same, but only the call set_img_size(size) tells the
\* caller whether the camera acknowledged; the assignment image_size = size
\* hands nothing back
C19_SetSizeChecked ==
    ret.op \in SetOps =>
      IF ret.exc = "ValueError"
      THEN ret.val \notin LegalCodes /\ wire = <<>>
      ELSE /\ ret.exc = "none"
           /\ \E sz \in LegalCodes : Written(wire) = SetSizeFrame(sz)
           /\ Len(SelectSeq(wire, IsHeader)) = 1
           /\ xchg.cmd = _WRITE_DATA
           /\ ret.val = (IF ret.op = "set_img_size" /\ xchg.ok THEN 1 ELSE 0)

C19_Witness ==
    /\ ret = Outcome("set_img_size", "none", 1)
    /\ Written(wire) = SetSizeFrame(IMAGE_SIZE_320x240)
    /\ xchg.ok

----------------------------------------------------------------------------
(* Properties of the long drain, checked under SpecLong *)

\* C14: frame_length sends GET_FBUF_LEN expecting 9 bytes; it returns the
\* big-endian value of bytes 5..8 of the response when the exchange
\* succeeds and 0 when it fails, never raises, never moves the cursor
C14_FrameLengthDecodes ==
    /\ [](ret.op = "frame_length" =>
            /\ Written(wire) = <<86, _SERIAL, _GET_FBUF_LEN, 1, 0>>
            /\ xchg.cmd = _GET_FBUF_LEN
            /\ xchg.resplen = 9
            /\ ret.exc = "none"
            /\ ret.val = IF xchg.ok THEN BE(SubSeq(xchg.data, 6, 9)) ELSE 0)
    /\ [][ret'.op = "frame_length" => _frame_ptr' = _frame_ptr]_vars

C14_Witness ==
    /\ ret = Outcome("frame_length", "none", 100000)
    /\ xchg.data = <<118, 0, 52, 0, 4, 0, 1, 134, 160>>
    /\ _frame_ptr > 0

\* C20: the offset carried by each read-frame-buffer command equals the
\* cursor, also when the frame is longer than 65535 bytes
C20_OffsetIsCursor ==
    rpi # NoRead /\ wire # <<>> => OffsetOf(wire) = rpi.before

----------------------------------------------------------------------------
(* Properties of VC0706Camera.take_picture, checked under Spec *)

\* the command a step wrote, by its opcode and sub-command
Command(w) ==
    LET b == Written(w)
    IN IF Len(b) < 3 THEN "none"
       ELSE IF b[3] = _WRITE_DATA THEN "set-image-size"
       ELSE IF b[3] = _GET_FBUF_LEN THEN "length"
       ELSE IF b[3] = _READ_FBUF THEN "read"
       ELSE IF b[3] = _FBUF_CTRL /\ Len(b) = 5 /\ b[5] = _STOPCURRENTFRAME THEN "stop-current"
       ELSE IF b[3] = _FBUF_CTRL /\ Len(b) = 5 /\ b[5] = _RESUMEFRAME THEN "resume"
       ELSE "other"

\* a step in which the caller calls VC0706Camera.take_picture
CallsTakePicture ==
    variant = "VC0706Camera" /\ calls' = calls + 1 /\ ret'.op = "take_picture"

\* VC0706Camera.take_picture is running: it has written a command and has
\* not handed control back
InTakePicture ==
    variant = "VC0706Camera" /\ ret.op = "take_picture" /\ ret.exc = "running"

\* the commands that may come next in take_picture after the command prev,
\* acknowledged or not
Successors(prev, ok) ==
    IF prev = "set-image-size" THEN {"stop-current"}
    ELSE IF prev = "stop-current" THEN (IF ok THEN {"length"} ELSE {"resume"})
    ELSE IF prev \in {"length", "read"} THEN {"read", "resume", "none"}
    ELSE {}

\* C21: VC0706Camera.take_picture writes its commands in the order
\* set-image-size, stop-current, length query, read-frame-buffer (none or
\* more), resume, and resume is the last one; a length query and the reads
\* come only after an acknowledged stop-current; after a stop-current that
\* was not acknowledged it writes resume and raises RuntimeError, with no
\* length query, no read and nothing put in the sink
C21_TakePictureOrder ==
    /\ [][CallsTakePicture => Command(wire') \in {"set-image-size", "none"}]_vars
    /\ [][InTakePicture => Command(wire') \in Successors(Command(wire), xchg.ok)]_vars
    /\ [][InTakePicture /\ Command(wire') = "resume" => ret'.exc # "running"]_vars
    /\ [][InTakePicture /\ Command(wire') # "read" => sink' = sink]_vars
    /\ [][InTakePicture /\ Command(wire) = "stop-current" /\ ~xchg.ok =>
            /\ Command(wire') = "resume"
            /\ ret' = Outcome("take_picture", "RuntimeError", 0)
            /\ rpi' = NoRead
            /\ sink' = sink]_vars

\* take_picture has raised after a stop-current that was not acknowledged
C21_Witness ==
    /\ variant = "VC0706Camera"
    /\ ret = Outcome("take_picture", "RuntimeError", 0)
    /\ Command(wire) = "resume"
    /\ rpi = NoRead
    /\ sink = <<>>
    /\ sinkType = "bytearray"

\* C23: VC0706Camera.take_picture gets past its checks, and so writes its
\* first command, only with a file or an empty bytearray as the sink; over a
\* line that delivered every answer, a call that returned True has left in a
\* bytearray sink the bytes of the captured frame and nothing else
C23_SinkValidated ==
    /\ InTakePicture => sinkType \in {"FileIO", "bytearray"}
    /\ InTakePicture /\ Command(wire) = "set-image-size" /\ sinkType = "bytearray"
         => sink = <<>>
    /\ variant = "VC0706Camera" /\ ret = Outcome("take_picture", "none", 1)
         /\ sinkType = "bytearray" /\ faithful
         => sink = Frame

----------------------------------------------------------------------------
(* Properties of the image size register, checked under SpecConfig *)

\* C22: the image_size getter writes READ_DATA with the argument bytes 0x04,
\* 0x04, 0x01, 0x00, 0x19, the register the setter writes, and over a line
\* that delivered every answer it returns the code the camera's register
\* holds: the one set before
C22_SizeRoundTrip ==
    ret.op = "image_size" =>
      /\ Written(wire) = ReadSizeFrame
      /\ faithful => ret = Outcome("image_size", "none", devSize)

----------------------------------------------------------------------------
(* The two classes side by side, checked under SpecTwin *)

\* what the line delivered to the drain read of a step: nothing when the
\* step made no drain read
JunkOf(w) ==
    LET io == IO(w)
    IN IF io # <<>> /\ io[1].op = "read"
       THEN CHOOSE j \in LineJunks : Len(j) = io[1].got
       ELSE <<>>

\* a step in which the caller calls the method op
Calls(op) == calls' = calls + 1 /\ ret'.op = op

\* C24: from every state a session reaches, the method of VC0706Camera, fed
\* what the line delivered to the method of VC0706, makes the same transport
\* calls (writes byte for byte, reads, baud changes), leaves the same scratch
\* buffer, baud rate and cursor and hands back the same result: for each turn
\* of the constructor, the baudrate setter, frame_length, resume_video, the
\* start of a capture and read_picture_into
C24_TwinsAgree ==
    /\ [][pc = "init" =>
            LET c == VC0706Camera__init__(pass, idx, _buffer, JunkOf(wire'), xchg'.data)
            IN /\ wire' = c.wire
               /\ baud' = c.baud
               /\ _buffer' = c.buf
               /\ xchg'.ok = c.ok
               /\ <<pc', pass', idx'>> = <<c.pc, c.pass, c.idx>>
               /\ c.pc # "init" => ret' = Outcome("__init__", c.exc, 0)
               /\ _frame_ptr' = _frame_ptr]_vars
    /\ [][Calls("baudrate") =>
            LET c == VC0706Camera_baudrate(_buffer, baud, ret'.val, JunkOf(wire'),
                                           xchg'.data)
            IN /\ wire' = c.wire
               /\ baud' = c.baud
               /\ _buffer' = c.buf
               /\ ret'.exc = c.exc
               /\ _frame_ptr' = _frame_ptr]_vars
    /\ [][Calls("frame_length") =>
            LET c == VC0706Camera_frame_length(_buffer, JunkOf(wire'), xchg'.data)
            IN /\ wire' = c.wire
               /\ baud' = baud
               /\ _buffer' = c.buf
               /\ ret' = Outcome("frame_length", "none", c.val)
               /\ _frame_ptr' = _frame_ptr]_vars
    /\ [][Calls("resume_video") =>
            LET c == VC0706Camera_resume_video(_buffer, JunkOf(wire'), xchg'.data)
            IN /\ wire' = c.wire
               /\ baud' = baud
               /\ _buffer' = c.buf
               /\ ret' = Outcome("resume_video", "none", IF c.ok THEN 1 ELSE 0)
               /\ _frame_ptr' = _frame_ptr]_vars
    /\ [][Calls(BeginOp) =>
            LET c == stop_video(_buffer, JunkOf(wire'), xchg'.data)
            IN /\ wire' = c.wire
               /\ baud' = baud
               /\ _buffer' = c.buf
               /\ ret' = Outcome(BeginOp, "none", IF c.ok THEN 1 ELSE 0)
               /\ _frame_ptr' = c.ptr]_vars
    /\ [][Calls("read_picture_into") =>
            LET c == VC0706Camera_read_picture_into(_buffer, _frame_ptr, rpi'.bufflen,
                                                    xchg'.data, rpi'.data)
            IN /\ wire' = c.wire
               /\ baud' = baud
               /\ _buffer' = c.buf
               /\ ret' = Outcome("read_picture_into", c.exc, c.val)
               /\ rpi'.buf = c.out
               /\ _frame_ptr' = c.ptr]_vars

\* a session that was constructed, began a capture and read 32 bytes of the
\* frame
C24_Witness ==
    /\ nreset = Passes
    /\ calls = 2
    /\ ret = Outcome("read_picture_into", "none", 32)
    /\ _frame_ptr = 32
    /\ devFlen > 0
    /\ Len(_buffer.used) > 32

====
